---- MODULE Spec2Model ----
(***************************************************************************)
(* Resumable, cursor-driven media download of telegram-channel-downloader. *)
(*                                                                         *)
(*   resumableDownload   src/modules/resumable-download.js                 *)
(*   downloadMessageMedia  src/unnamed/part_002  (modules/messages.js)     *)
(*   DownloadChannel     src/scripts/download-channel.js                   *)
(*   DownloadTopic       src/utils/file-helper.js (lines 118-485)          *)
(*   checkFileExist / getMediaPath   src/utils/telegram-url.js (491-861)   *)
(*   getLastSelection / updateLastSelection  src/utils/file-helper.js      *)
(*                                                                         *)
(* Bytes are abstract units; PartSize units stand for the 512 KiB request  *)
(* size.  Message ids are 1..NumMsgs, the newest message has the highest   *)
(* id, and getMessages(offsetId) yields the ids below offsetId, newest     *)
(* first (all ids when offsetId = 0).                                      *)
(***************************************************************************)
EXTENDS Integers, Sequences, FiniteSets, TLC

\* ------------------------------------------------------------------ bounds
NumMsgs == 4      \* messages of the channel
MaxSize == 4      \* largest media object, in byte units
PartSize == 2     \* byte units per requested chunk (stands for 512 KiB)
PageSize == 3     \* messages per getMessages page (stands for MESSAGE_LIMIT)
MaxRuns == 2      \* process runs of the channel specification
MaxCalls == 3     \* resumableDownload calls of the transfer specification
FloodSeconds == 3 \* the wait hint (err.seconds) a flood error carries
MaxFailures == 1  \* failed attempts per job in the batch specification
MaxStored == 1    \* largest value kept under a key of last_selection.json

\* ------------------------------------------------------- program constants
MAX_PARALLEL_DOWNLOAD == 3
MESSAGE_LIMIT == 50
MAX_RETRIES == 5
RETRY_DELAYS == <<5, 15, 30, 60, 120>>

\* cli-progress total of a bar created for an unknown size (totalBytes || 100)
UnknownBarTotal == 100

\* What downloadMessageMedia finds in its 5th parameter, retryCount, when the
\* caller put the ProgressManager instance there: an object, which is neither
\* === 0 nor (converted to NaN) < MAX_RETRIES.
NotANumber == -1

Ids == 1..NumMsgs

VARIABLES
  msgs,        \* the channel: id -> [type, size, known]            (input)
  disk,        \* file name -> [exists, data]; name = <<path, 1>> is path + ".partial"
  cursor,      \* messageOffsetId persisted in last_selection.json, 0 if none
  pc,          \* "off" | "fetch" | "window" | "returned" | "unit"
  offsetArg,   \* offsetMsgId of the current downloadChannel invocation
  page,        \* ids of the page being processed, newest first
  dl,          \* downloadableMessages of the page
  wi,          \* loop index i of the window being awaited
  jobs,        \* id -> the downloadMessageMedia / resumableDownload call for it
  runs,        \* runs (or direct calls) started so far
  winCursor,   \* the cursor when the current window was started
  prevFailed,  \* ids whose job ended Failed in the previous run
  prevLeft,    \* id -> the partial file such a job left behind
  hadFile,     \* ids whose destination file existed when the run started
  progress,    \* the ProgressManager instance: [bars, op, raised]
  store,       \* the tracking files: [files, op, ret]
  probe,       \* a call of extractFileInfo: [media, out]
  linkRun,     \* DownloadFromLinks.handle: [links, videos, i, processed, linked]
  wiring       \* "called": the arguments as the callers pass them;
               \* "declared": in the order downloadMessageMedia declares them

vars == <<msgs, disk, cursor, pc, offsetArg, page, dl, wi, jobs, runs,
          winCursor, prevFailed, prevLeft, hadFile, progress, wiring, store,
          probe, linkRun>>

\* ------------------------------------------------------------------- files
NoFile == [exists |-> FALSE, data |-> <<>>]
EmptyFile == [exists |-> TRUE, data |-> <<>>]

Min(a, b) == IF a < b THEN a ELSE b
Max(a, b) == IF a > b THEN a ELSE b
CeilDiv(a, b) == (a + b - 1) \div b

\* Paths: 0 is the file name shared by every "doc" message (a
\* DocumentAttributeFilename such as video.mp4), m is the name built from
\* message id m, NumMsgs + m is the shared name with _m appended.
Paths == 0..(2 * NumMsgs)
Names == Paths \X {0, 1}
FinalName(p) == <<p, 0>>

\* byte i of the remote object of message m
Byte(m, i) == 10 * m + i
Content(m) == [i \in 1..msgs[m].size |-> Byte(m, i)]


\* ------------------------------------------------- media paths (helper.js)
\* Message kinds: "doc" a document, "photo" a photo with a size variant that
\* can be fetched, "thumb" a photo whose sizes hold no PhotoSize or
\* PhotoSizeProgressive variant, "web" a web page preview (standing for every
\* media that is neither document nor photo), "text" a message without media.
hasMedia(m) == msgs[m].type # "text"
hasDocument(m) == msgs[m].type = "doc"
hasPhoto(m) == msgs[m].type \in {"photo", "thumb"}

\* a test that lets every media through
AnyMedia(m) == hasMedia(m)

\* the test of downloadMessageMedia, lines 47-52
DocumentOrPhoto(m) == hasDocument(m) \/ hasPhoto(m)

\* extractFileInfo(message) is not null: a document, or a photo with a
\* PhotoSize / PhotoSizeProgressive variant
HasFileInfo(m) == hasDocument(m) \/ msgs[m].type = "photo"

\* fileName of checkFileExist / getMediaPath before any renaming: a document
\* carries its DocumentAttributeFilename (shared), a photo is <id>_file.jpg.
BasePath(m) == IF msgs[m].type = "doc" THEN 0 ELSE m

\* fileName.includes(String(message.id)): true of <id>_file.jpg; the shared
\* document name holds no message id.
filenameHasMessageId(m) == msgs[m].type # "doc"

checkFileExist(d, m) == hasMedia(m) /\ d[FinalName(BasePath(m))].exists

getMediaPath(d, m) ==
  IF d[FinalName(BasePath(m))].exists /\ ~filenameHasMessageId(m)
  THEN NumMsgs + m
  ELSE BasePath(m)

\* a filter that does not look at the export folder
canDownloadUnseen(d, m) == hasMedia(m) /\ (hasDocument(m) \/ hasPhoto(m))

\* DownloadChannel.canDownload / DownloadTopic.canDownload, with every file
\* type allowed (src/index.js) and no date filter.
canDownload(d, m) ==
  /\ hasMedia(m)
  /\ (hasDocument(m) \/ hasPhoto(m))
  /\ ~checkFileExist(d, m)

\* ---------------------------------------------- resumable-download.js
\* chunks written under the final name itself
StraightToFinal(p) == <<p, 0>>

getPartialFilePath(p) == <<p, 1>>

getPartialFileSize(d, name) == IF d[name].exists THEN Len(d[name].data) ELSE 0

\* a guard that lets a partial of exactly the declared size through
StaleOnlyIfLarger(m, existingSize) == msgs[m].known /\ existingSize > msgs[m].size

\* the corruption guard: fileSize && existingSize >= fileSize
PartialIsStale(m, existingSize) == msgs[m].known /\ existingSize >= msgs[m].size

\* a transfer that always asks for the object from its first byte
OffsetZero(m, existingSize) == 0

\* the offset handed to iterDownload
StreamOffset(m, existingSize) ==
  IF PartialIsStale(m, existingSize) THEN 0 ELSE existingSize

\* a stream that is always opened with truncation
AlwaysTruncate(existingSize) == "w"

\* flags of createWriteStream
OpenFlags(existingSize) == IF existingSize > 0 THEN "a" ELSE "w"

\* a stream that delivers one byte per chunk
OneByteChunk(m, off) == SubSeq([i \in 1..msgs[m].size |-> 10 * m + i], off + 1, off + 1)

\* The remote stream (iterDownload, an external collaborator): from offset off
\* it delivers the remaining bytes of the object in chunks of at most PartSize
\* and ends when none remain.
RemoteChunk(m, off) ==
  SubSeq(Content(m), off + 1, Min(off + PartSize, msgs[m].size))

StreamExhausted(m, off) == off >= msgs[m].size

\* what an uninterrupted transfer from offset 0 writes, chunk by chunk
RECURSIVE Uninterrupted(_, _)
Uninterrupted(m, off) ==
  IF StreamExhausted(m, off) THEN <<>>
  ELSE RemoteChunk(m, off) \o Uninterrupted(m, off + Len(RemoteChunk(m, off)))

\* a write through a descriptor opened with "w" goes to the descriptor's own
\* position, one opened with "a" to the end of the file
WriteAt(data, pos, bytes) ==
  [i \in 1..Max(Len(data), pos + Len(bytes)) |->
     IF i > pos /\ i <= pos + Len(bytes) THEN bytes[i - pos]
     ELSE IF i <= Len(data) THEN data[i] ELSE 0]

\* writeStream.write(chunk): a file that is gone from the path (cannot occur
\* while one transfer owns the path) takes no bytes under that name.
WriteFile(d, job, bytes) ==
  LET name == getPartialFilePath(job.path)
      f == d[name]
  IN IF ~f.exists THEN d
     ELSE [d EXCEPT ![name].data =
             IF job.mode = "a" THEN f.data \o bytes
             ELSE WriteAt(f.data, job.pos, bytes)]

\* a catch block that removes the partial file
DeletedOnError(f) == [exists |-> FALSE, data |-> <<>>]

\* the catch block of resumableDownload: writeStream.end(), log, rethrow
PartialAfterError(f) == f

\* fs.renameSync(partialPath, mediaPath)
Rename(d, p) ==
  [d EXCEPT ![FinalName(p)] = d[getPartialFilePath(p)],
            ![getPartialFilePath(p)] = NoFile]

\* --------------------------------------------- messages.js (part_002)
\* Errors a transfer can meet.  code / message / seconds as the catch block
\* of downloadMessageMedia reads them.
TransportErrors == {"Timeout", "Flood", "Server", "Fatal"}
ErrCode(e) == CASE e = "Timeout" -> -503 [] e = "Flood" -> 420
                [] e = "Server" -> 500 [] OTHER -> 0
\* err.seconds: the flood error carries a wait hint, the others none
ErrSeconds(e) == IF e = "Flood" THEN FloodSeconds ELSE 0
MsgHasTimeout(e) == e = "Timeout"
MsgHasFlood(e) == e = "Flood"

isRetryable(e) ==
  \/ ErrCode(e) = -503
  \/ ErrCode(e) = 420
  \/ MsgHasTimeout(e)
  \/ MsgHasFlood(e)
  \/ (ErrCode(e) >= 500 /\ ErrCode(e) < 600)

\* a bound that admits one retry more
RetryCountUpToMax(rc) == rc # NotANumber /\ rc <= MAX_RETRIES

\* retryCount < MAX_RETRIES, and retryCount === 0
RetryCountBelowMax(rc) == rc # NotANumber /\ rc < MAX_RETRIES
\* a registration that does not look at retryCount
AnyRetryCount(rc) == TRUE

RetryCountIsZero(rc) == rc = 0

\* RETRY_DELAYS[retryCount]: undefined outside the table
RetryDelay(rc) ==
  IF rc \in 0..(Len(RETRY_DELAYS) - 1) THEN RETRY_DELAYS[rc + 1] ELSE NotANumber

\* a policy that ignores the hint and reads the table one slot further
ShiftedWait(rc, e) == IF rc + 1 \in 0..4 THEN <<5, 15, 30, 60, 120>>[rc + 2] ELSE -1

\* waitTime of lines 110-113
WaitTime(rc, e) == IF ErrSeconds(e) # 0 THEN ErrSeconds(e) + 1 ELSE RetryDelay(rc)

\* A method call on the value received as progressManager: "pm" is a
\* ProgressManager, "null" is the default (every call is guarded by
\* `if (progressManager)`), "chan" is a channel id (truthy, no such method:
\* the call throws a TypeError).
PmCall(pm) == CASE pm = "null" -> "skip" [] pm = "pm" -> "ok" [] OTHER -> "throw"

\* the progress callback handed to resumableDownload (lines 74-82)
DmmCallback(pm) == IF PmCall(pm) = "throw" THEN "throw" ELSE "ok"

\* a catch block that reports success whatever was thrown
CatchSwallows(pm, rc, e) == "true"

\* The catch block (lines 95-130): "wait" = back off and call again,
\* "false" = return false, "rejected" = failDownload threw inside the catch.
CatchResult(pm, rc, e) ==
  IF isRetryable(e) /\ RetryCountBelowMax(rc) THEN "wait"
  ELSE IF PmCall(pm) = "throw" THEN "rejected"
  ELSE "false"

\* after resumableDownload returned: completeDownload, return true (84-89)
ReturnResult(pm, rc) ==
  IF PmCall(pm) = "throw" THEN CatchResult(pm, rc, "TypeError") ELSE "true"


\* ------------------------------------------- ProgressManager (part_000)
\* An entry of this.bars together with its bar.  bars.delete(id) takes the
\* entry out of the map (present = FALSE); the bar object keeps the value and
\* total it was last given.
NoBar == [present |-> FALSE, totalBytes |-> 0, value |-> 0, barTotal |-> 0]

startDownload(b, id, totalBytes) ==
  [b EXCEPT ![id] = [present |-> TRUE, totalBytes |-> totalBytes, value |-> 0,
                     barTotal |-> IF totalBytes # 0 THEN totalBytes
                                  ELSE UnknownBarTotal]]

\* an updateProgress that takes the total of every call
UpdateRetargets(b, id, downloadedBytes, totalBytes) ==
  IF ~b[id].present THEN b
  ELSE [b EXCEPT ![id] = [present |-> TRUE,
                          totalBytes |-> IF totalBytes # 0 THEN totalBytes ELSE @.totalBytes,
                          value |-> downloadedBytes,
                          barTotal |-> IF totalBytes # 0 THEN totalBytes ELSE @.barTotal]]

\* an updateProgress without the check for a missing entry
UpdateUnguarded(b, id, downloadedBytes, totalBytes) ==
  [b EXCEPT ![id] = [@ EXCEPT !.value = downloadedBytes]]

updateProgress(b, id, downloadedBytes, totalBytes) ==
  IF ~b[id].present THEN b
  ELSE LET learn == totalBytes # 0 /\ b[id].totalBytes = 0
       IN [b EXCEPT ![id] = [present |-> TRUE,
                             totalBytes |-> IF learn THEN totalBytes ELSE @.totalBytes,
                             value |-> downloadedBytes,
                             barTotal |-> IF learn THEN totalBytes ELSE @.barTotal]]

completeDownload(b, id, success) ==
  IF ~b[id].present THEN b
  ELSE [b EXCEPT ![id] = [present |-> FALSE,
                          totalBytes |-> @.totalBytes,
                          value |-> IF success /\ @.totalBytes # 0
                                    THEN @.totalBytes ELSE @.value,
                          barTotal |-> @.barTotal]]

failDownload(b, id) == completeDownload(b, id, FALSE)

\* stop(): this.bars.clear()
stop(b) == [id \in DOMAIN b |-> [b[id] EXCEPT !.present = FALSE]]

\* No statement of updateProgress, completeDownload or failDownload throws:
\* a missing entry returns before any property of it is read (lines 60, 83).
MethodRaises(b, op, id) == FALSE

\* stop() as the callers use it
Stopped(pg) == [bars |-> stop(pg.bars), op |-> <<"stop", 0>>, raised |-> FALSE]

\* new ProgressManager()
NewProgress == [bars |-> [id \in Ids |-> NoBar], op |-> <<"new", 0>>, raised |-> FALSE]

\* the instance after a method ran on it
After(pg, b, op, id) == [bars |-> b, op |-> <<op, id>>, raised |-> MethodRaises(pg.bars, op, id)]

\* totalBytes as downloadMessageMedia and resumableDownload read it for a
\* document or a photo of one PhotoSize variant: the declared size, 0 when
\* none is declared
TotalBytes(m) == IF msgs[m].known THEN msgs[m].size ELSE 0

\* ------------------------------- last_selection.json (utils/file-helper.js)
\* One tracking file per scope (channel folder name).  A file is missing,
\* unreadable (fs.readFileSync throws), or holds text: text that is not JSON
\* ("garbage"), the JSON text null, the JSON text of a number ("scalar"), or
\* the JSON text of an object, kept as the set of its "key": value members.
Scopes == {"chanA", "chanB"}
StoreKeys == {"messageOffsetId", "other"}
StoredValues == 0..MaxStored
Undefined == MaxStored + 1

NoMembers == {}
TextOnly == {"missing", "unreadable", "garbage", "null", "scalar"}
ObjectTexts ==
  {t \in SUBSET (StoreKeys \X StoredValues) :
     \A a \in t, b \in t : a[1] = b[1] => a = b}
TrackingFiles ==
  {[kind |-> k, members |-> NoMembers] : k \in TextOnly}
    \cup {[kind |-> "object", members |-> t] : t \in ObjectTexts}

\* objects in memory: key -> value, Undefined where the object has no such key
Objects == [StoreKeys -> StoredValues \cup {Undefined}]
EmptyObject == [k \in StoreKeys |-> Undefined]

\* JSON.stringify(data, null, 2): the members of the object
JSON_stringify(obj) == {<<k, obj[k]>> : k \in {x \in StoreKeys : obj[x] # Undefined}}

\* JSON.parse(data); "throws" for text that is not JSON
JSON_parse(f) ==
  CASE f.kind = "object" ->
         [tag |-> "object",
          obj |-> [k \in StoreKeys |->
                     IF \E v \in StoredValues : <<k, v>> \in f.members
                     THEN CHOOSE v \in StoredValues : <<k, v>> \in f.members
                     ELSE Undefined]]
    [] f.kind = "null" -> [tag |-> "null", obj |-> EmptyObject]
    [] f.kind = "scalar" -> [tag |-> "scalar", obj |-> EmptyObject]
    [] OTHER -> [tag |-> "throws", obj |-> EmptyObject]

\* readFileSync(path, false): throws when the file cannot be read
ReadThrows(f) == f.kind \in {"missing", "unreadable"}

\* a reader that hands out whatever JSON.parse gave, or {} if it threw
getLastSelection(f) ==
  LET parsed == JSON_parse(f)
  IN IF ReadThrows(f) \/ parsed.tag = "throws"
     THEN [tag |-> "object", obj |-> EmptyObject]
     ELSE parsed

\* what a call gives back: a value, or an exception
Gives(v) == [raised |-> FALSE, value |-> v]
Raises == [raised |-> TRUE, value |-> 0]

\* getMessageOffset: lastSelection.messageOffsetId || 0.  Reading a property
\* of null throws a TypeError; a number has no such property.
getMessageOffsetOf(f) ==
  LET lastSelection == getLastSelection(f)
  IN IF lastSelection.tag = "null" THEN Raises
     ELSE IF lastSelection.obj["messageOffsetId"] \in {Undefined, 0} THEN Gives(0)
     ELSE Gives(lastSelection.obj["messageOffsetId"])

\* an update that stores the patch alone
PatchOnly(last, object) == object

\* { ...last, ...object }: null and numbers spread to nothing
Spread(last, object) ==
  [k \in StoreKeys |-> IF object[k] # Undefined THEN object[k] ELSE last.obj[k]]

\* updateLastSelection: read, merge, write the whole object; a failed write
\* (always so on a path that cannot be read) is logged and nothing is raised
updateLastSelection(f, object, writeOk) ==
  LET last == Spread(getLastSelection(f), object)
  IN IF writeOk /\ f.kind # "unreadable"
     THEN [kind |-> "object", members |-> JSON_stringify(last)]
     ELSE f

\* ------------------------------ extractFileInfo (resumable-download.js)
\* A photo is the sequence photo.sizes of its size variants, in the order
\* the server lists them. A variant carries its className, its type letter
\* (here its position in the list), the field size (0: the class has no such
\* field) and the array sizes (<<>>: the class has no such field).
MaxVariants == 3
MaxVariantSize == 2

VariantShapes ==
  {[className |-> "PhotoSize", size |-> z, sizes |-> <<>>] : z \in 1..MaxVariantSize}
  \cup {[className |-> "PhotoSizeProgressive", size |-> 0, sizes |-> <<a, b>>] :
          a \in 1..MaxVariantSize, b \in 1..MaxVariantSize}
  \cup {[className |-> "PhotoStrippedSize", size |-> 0, sizes |-> <<>>]}

PhotoSizes ==
  UNION {[1..n -> VariantShapes] : n \in 0..MaxVariants}

\* message.media: a document with its size field (0: absent), a photo, or
\* something else (a web page preview)
Medias ==
  {[kind |-> "document", size |-> z, sizes |-> <<>>] : z \in 0..MaxVariantSize}
  \cup {[kind |-> "photo", size |-> 0, sizes |-> sz] : sz \in PhotoSizes}
  \cup {[kind |-> "webpage", size |-> 0, sizes |-> <<>>]}

RECURSIVE MaxOf(_)
MaxOf(s) ==
  IF Len(s) = 1 THEN s[1]
  ELSE LET r == MaxOf(Tail(s)) IN IF s[1] >= r THEN s[1] ELSE r

\* a.size || (a.sizes ? Math.max(...a.sizes) : 0)
ReportedSize(a) ==
  IF a.size # 0 THEN a.size
  ELSE IF a.sizes # <<>> THEN MaxOf(a.sizes)
  ELSE 0

\* a comparator that lets a later variant of equal size pass an earlier one
StrictlyLarger(x, v) == ReportedSize(x) > ReportedSize(v)

\* the comparator (a, b) => bSize - aSize leaves x before v
KeepsBefore(x, v) == ReportedSize(x) >= ReportedSize(v)

\* the variants of s with their positions, those the filter keeps
Tagged(s) == [i \in 1..Len(s) |-> [at |-> i, v |-> s[i]]]

RECURSIVE Filtered(_)
Filtered(t) ==
  IF t = <<>> THEN <<>>
  ELSE IF t[1].v.className \in {"PhotoSize", "PhotoSizeProgressive"}
       THEN <<t[1]>> \o Filtered(Tail(t))
       ELSE Filtered(Tail(t))

\* Array.prototype.sort is stable: an element is placed after every element
\* the comparator leaves before it
RECURSIVE InsertSorted(_, _)
InsertSorted(e, t) ==
  IF t = <<>> THEN <<e>>
  ELSE IF KeepsBefore(t[1].v, e.v) THEN <<t[1]>> \o InsertSorted(e, Tail(t))
  ELSE <<e>> \o t

RECURSIVE SortedBySize(_)
SortedBySize(t) ==
  IF t = <<>> THEN <<>>
  ELSE InsertSorted(t[Len(t)], SortedBySize(SubSeq(t, 1, Len(t) - 1)))

\* what extractFileInfo returns: found FALSE is null; thumb is the position
\* of the chosen variant (0 for a document); known FALSE is fileSize null
NullInfo == [found |-> FALSE, isPhoto |-> FALSE, thumb |-> 0, known |-> FALSE, fileSize |-> 0]

extractFileInfo(media) ==
  IF media.kind = "document"
  THEN [found |-> TRUE, isPhoto |-> FALSE, thumb |-> 0,
        known |-> media.size # 0, fileSize |-> media.size]
  ELSE IF media.kind = "photo"
  THEN LET sorted == SortedBySize(Filtered(Tagged(media.sizes)))
       IN  IF sorted = <<>> THEN NullInfo
           ELSE LET largestSize == sorted[1]
                    fileSize == ReportedSize(largestSize.v)
                IN  [found |-> TRUE, isPhoto |-> TRUE, thumb |-> largestSize.at,
                     known |-> fileSize # 0, fileSize |-> fileSize]
  ELSE NullInfo

\* ------------------------------------ DownloadFromLinks.handle (part_001)
\* The links of the source message, parsed. A link names its channel by a
\* username or by a numeric id: "alpha" and "c1" are the public and the
\* private form of the address of one channel, "beta" is another channel.
MaxLinks == 3
lookAhead == 5
LinkIds == {1, 2, 3}
Addresses == {"alpha", "c1", "beta"}

\* resolveChannelEntity: the channel an address stands for
ChannelOf(addr) == IF addr = "beta" THEN "B" ELSE "A"

ParsedLinks == [addr : Addresses, messageId : LinkIds]

LinkLists == UNION {[1..n -> ParsedLinks] : n \in 0..MaxLinks}

\* isDownloadableVideo over the messages of the channels: those of channel A
\* listed in videos, every message of channel B
isDownloadableVideo(videos, chan, id) ==
  id \in LinkIds /\ (chan = "B" \/ id \in videos)

\* `${parsed.channelId || parsed.username}:${messageId}`
LinkKey(parsed, id) == <<parsed.addr, id>>

\* messages.find(m => m && m.id > parsed.messageId && isDownloadableVideo(m))
\* over the ids messageId .. messageId + lookAhead; 0 when there is none
FirstVideoAfter(videos, parsed) ==
  LET later == {id \in LinkIds :
                  /\ id > parsed.messageId
                  /\ id <= parsed.messageId + lookAhead
                  /\ isDownloadableVideo(videos, ChannelOf(parsed.addr), id)}
  IN  IF later = {} THEN 0
      ELSE CHOOSE id \in later : \A o \in later : id <= o

\* one iteration of the loop over parsedLinks; fetched FALSE: the channel
\* could not be resolved, or getMessageDetail gave nothing or threw
LinkIteration(run, parsed, fetched) ==
  LET baseKey == LinkKey(parsed, parsed.messageId)
      chan == ChannelOf(parsed.addr)
      seen == run.processed \cup {baseKey}
      videoId == FirstVideoAfter(run.videos, parsed)
      videoKey == LinkKey(parsed, videoId)
  IN  IF baseKey \in run.processed THEN run
      ELSE IF ~fetched THEN [run EXCEPT !.processed = seen]
      ELSE IF isDownloadableVideo(run.videos, chan, parsed.messageId)
      THEN [run EXCEPT !.processed = seen,
                       !.linked = Append(@, [chan |-> chan, id |-> parsed.messageId])]
      ELSE IF videoId # 0 /\ videoKey \notin seen
      THEN [run EXCEPT !.processed = seen \cup {videoKey},
                       !.linked = Append(@, [chan |-> chan, id |-> videoId])]
      ELSE [run EXCEPT !.processed = seen]

\* ------------------------------------------------------------ one transfer
NoJob ==
  [st |-> "none", path |-> 0, mode |-> "w", pos |-> 0, off0 |-> 0, got |-> 0,
   downloaded |-> 0, chunk |-> <<>>, pm |-> "null", rc |-> 0,
   caller |-> "dmm", cb |-> "ok", bad |-> FALSE, seen |-> NoFile,
   nfetch |-> 0, stale |-> FALSE, tries |-> 0, wait |-> 0]

InFlight == {"stream", "write", "closing", "wait"}
Settled == {"true", "false", "rejected", "rdTrue", "rdThrew"}

\* the progress callback resumableDownload calls after each chunk
CallbackOf(job) == IF job.caller = "dmm" THEN DmmCallback(job.pm) ELSE job.cb

\* resumableDownload threw e: its direct caller sees the error,
\* downloadMessageMedia runs its catch block
Threw(job, e) ==
  IF job.caller = "direct"
  THEN [job EXCEPT !.st = "rdThrew", !.chunk = <<>>]
  ELSE LET r == CatchResult(job.pm, job.rc, e)
       IN [job EXCEPT !.st = r, !.bad = (r # "wait"), !.chunk = <<>>,
                      !.wait = IF r = "wait" THEN WaitTime(job.rc, e) ELSE 0]

\* resumableDownload returned true
Returned(job) ==
  IF job.caller = "direct"
  THEN [job EXCEPT !.st = "rdTrue"]
  ELSE LET r == ReturnResult(job.pm, job.rc)
       IN [job EXCEPT !.st = r, !.bad = (PmCall(job.pm) = "throw")]

\* resumableDownload lines 126-141 and 161-167, up to createWriteStream: the
\* partial file's size is read, a stale partial is unlinked, the offset and
\* the open flags are fixed.  The file itself is opened later (OpenPartial).
BeginTransfer(m, d, job) ==
  LET name == getPartialFilePath(job.path)
      ex == getPartialFileSize(d, name)
      stale == PartialIsStale(m, ex)
      existingSize == IF stale THEN 0 ELSE ex
  IN [d |-> IF stale THEN [d EXCEPT ![name] = NoFile] ELSE d,
      job |-> [job EXCEPT !.st = "stream", !.mode = OpenFlags(existingSize),
                          !.pos = 0, !.off0 = StreamOffset(m, ex), !.got = 0,
                          !.downloaded = existingSize, !.chunk = <<>>,
                          !.seen = d[name], !.nfetch = 0, !.stale = stale,
                          !.tries = @ + 1, !.wait = 0]]

\* the open of createWriteStream: "w" creates or truncates, "a" creates
OpenPartial(d, job) ==
  LET name == getPartialFilePath(job.path)
  IN IF job.st # "stream" THEN d
     ELSE IF job.mode = "w" \/ ~d[name].exists
          THEN [d EXCEPT ![name] = EmptyFile]
          ELSE d

\* downloadMessageMedia lines 36-74, the synchronous part of a call: the
\* progress entry is registered on the first attempt (a TypeError there goes
\* to the catch block), then resumableDownload starts.
DmmBegin(m, d, job) ==
  IF ~hasMedia(m) \/ ~DocumentOrPhoto(m)
  THEN \* lines 45-52 and 90-93: return false
       [d |-> d, job |-> [job EXCEPT !.st = "false", !.bad = TRUE]]
  ELSE IF PmCall(job.pm) # "skip" /\ RetryCountIsZero(job.rc) /\ PmCall(job.pm) = "throw"
  THEN [d |-> d, job |-> Threw([job EXCEPT !.seen = d[getPartialFilePath(job.path)]],
                               "TypeError")]
  ELSE IF ~HasFileInfo(m)
  THEN \* resumableDownload returns false at line 122; its result is not
       \* looked at (line 74) and lines 84-89 run
       [d |-> d, job |-> Returned([job EXCEPT !.seen = d[getPartialFilePath(job.path)]])]
  ELSE BeginTransfer(m, d, job)

\* batch.map(...) of a window: every call runs synchronously up to its first
\* await, one after the other; the files are opened after that.
RECURSIVE BeginAll(_, _, _, _, _)
BeginAll(seq, d, js, pm, rc) ==
  IF seq = <<>> THEN [d |-> d, js |-> js]
  ELSE LET m == Head(seq)
           r == DmmBegin(m, d, [NoJob EXCEPT !.path = getMediaPath(d, m),
                                             !.pm = pm, !.rc = rc])
       IN BeginAll(Tail(seq), r.d, [js EXCEPT ![m] = r.job], pm, rc)

RECURSIVE OpenAll(_, _, _)
OpenAll(seq, d, js) ==
  IF seq = <<>> THEN d
  ELSE OpenAll(Tail(seq), OpenPartial(d, js[Head(seq)]), js)

StartJobs(seq, d, js, pm, rc) ==
  LET r == BeginAll(seq, d, js, pm, rc)
  IN [d |-> OpenAll(seq, r.d, r.js), js |-> r.js]

\* the continuation of transfer j at the await it is suspended on
Progress(j) ==
  LET job == jobs[j]
      name == getPartialFilePath(job.path)
  IN CASE job.st = "stream" ->
            \* for await (const chunk of downloadIter)
            IF StreamExhausted(j, job.off0 + job.got)
            THEN [d |-> disk, job |-> [job EXCEPT !.st = "closing"]]
            ELSE [d |-> disk,
                  job |-> [job EXCEPT !.st = "write",
                                      !.chunk = RemoteChunk(j, job.off0 + job.got),
                                      !.nfetch = @ + 1]]
       [] job.st = "write" ->
            \* the write is acknowledged; downloaded += chunk.length; callback
            LET d2 == WriteFile(disk, job, job.chunk)
                j2 == [job EXCEPT !.downloaded = @ + Len(job.chunk),
                                  !.got = @ + Len(job.chunk),
                                  !.pos = @ + Len(job.chunk),
                                  !.chunk = <<>>]
            IN IF CallbackOf(job) = "throw"
               THEN [d |-> [d2 EXCEPT ![name] = PartialAfterError(@)],
                     job |-> Threw(j2, "TypeError")]
               ELSE [d |-> d2, job |-> [j2 EXCEPT !.st = "stream"]]
       [] job.st = "closing" ->
            \* writeStream.end(); fs.renameSync(partialPath, mediaPath)
            IF disk[name].exists
            THEN [d |-> Rename(disk, job.path), job |-> Returned(job)]
            ELSE [d |-> disk, job |-> Threw(job, "ENOENT")]
       [] OTHER ->
            \* job.st = "wait": the backoff ends, downloadMessageMedia calls
            \* itself with retryCount + 1
            LET r == DmmBegin(j, disk, [job EXCEPT !.rc = @ + 1])
            IN [d |-> OpenPartial(r.d, r.job), job |-> r.job]

\* What a call of downloadMessageMedia does to the ProgressManager it was
\* given when it starts (lines 64-71): on the first attempt the entry is
\* registered, and shown at the partial file's size if there is one.
PmAtStart(pg, m, new) ==
  IF PmCall(new.pm) # "ok" THEN pg
  ELSE IF new.st = "true" /\ new.tries = 0
  THEN \* no transfer was started: the entry is registered on a first
       \* attempt and completeDownload follows at once
       After(pg, completeDownload(IF RetryCountIsZero(new.rc)
                                  THEN startDownload(pg.bars, m, TotalBytes(m))
                                  ELSE pg.bars, m, TRUE),
             "completeDownload", m)
  ELSE IF ~RetryCountIsZero(new.rc) \/ new.st # "stream" THEN pg
  ELSE LET b1 == startDownload(pg.bars, m, TotalBytes(m))
           existingBytes == IF new.seen.exists THEN Len(new.seen.data) ELSE 0
       IN IF existingBytes > 0
          THEN After(pg, updateProgress(b1, m, existingBytes, TotalBytes(m)), "updateProgress", m)
          ELSE After(pg, b1, "startDownload", m)

RECURSIVE PmAtStartAll(_, _, _)
PmAtStartAll(pg, seq, js) ==
  IF seq = <<>> THEN pg
  ELSE PmAtStartAll(PmAtStart(pg, Head(seq), js[Head(seq)]), Tail(seq), js)

\* ... and at a continuation: the progress callback after a chunk (76),
\* completeDownload after the transfer returned (86), failDownload in the
\* catch block (123), and the start of the next attempt when a backoff ends.
PmEffect(pg, m, old, new) ==
  IF PmCall(old.pm) # "ok" \/ old.caller # "dmm" THEN pg
  ELSE CASE old.st = "wait" -> PmAtStart(pg, m, new)
         [] old.st = "write" /\ new.st = "stream" ->
              After(pg, updateProgress(pg.bars, m, new.downloaded, TotalBytes(m)),
                    "updateProgress", m)
         [] new.st = "true" ->
              After(pg, completeDownload(pg.bars, m, TRUE), "completeDownload", m)
         [] new.st = "false" ->
              After(pg, failDownload(pg.bars, m), "failDownload", m)
         [] OTHER -> pg

JobProgress(j) ==
  /\ pc # "off"
  /\ jobs[j].st \in InFlight
  /\ disk' = Progress(j).d
  /\ jobs' = [jobs EXCEPT ![j] = Progress(j).job]
  /\ progress' = PmEffect(progress, j, jobs[j], Progress(j).job)
  /\ UNCHANGED <<msgs, wiring, store, probe, linkRun, cursor, pc, offsetArg, page, dl, wi, runs, winCursor,
                 prevFailed, prevLeft, hadFile>>

\* the remote stream fails while a chunk is awaited, or the write of a chunk
\* fails: resumableDownload's catch block runs and rethrows
JobFails(j, e) ==
  /\ pc # "off"
  /\ \/ jobs[j].st = "stream" /\ e \in TransportErrors
     \/ jobs[j].st = "write" /\ e = "IOError"
  /\ disk' = [disk EXCEPT ![getPartialFilePath(jobs[j].path)] = PartialAfterError(@)]
  /\ jobs' = [jobs EXCEPT ![j] = Threw(jobs[j], e)]
  /\ progress' = PmEffect(progress, j, jobs[j], Threw(jobs[j], e))
  /\ UNCHANGED <<msgs, wiring, store, probe, linkRun, cursor, pc, offsetArg, page, dl, wi, runs, winCursor,
                 prevFailed, prevLeft, hadFile>>


\* ------------------------------------- DownloadChannel / DownloadTopic run
IdsDesc == [i \in 1..NumMsgs |-> NumMsgs + 1 - i]

\* getMessages(client, channelId, limit, offsetMsgId)
getMessages(limit, offset) ==
  LET older == SelectSeq(IdsDesc, LAMBDA m : offset = 0 \/ m < offset)
  IN SubSeq(older, 1, Min(limit, Len(older)))

\* the pages of a channel longer than a page: PageSize stands for MESSAGE_LIMIT
PageOf(offset) == getMessages(PageSize, offset)

Downloadable(d, pg) == SelectSeq(pg, LAMBDA m : canDownload(d, m))

\* a loop that hands every remaining message to one Promise.all
WholeRest(dlist, i) == SubSeq(dlist, i + 1, Len(dlist))

\* a slice one job shorter than the loop step
ShortSlice(dlist, i) ==
  SubSeq(dlist, i + 1, Min(i + MAX_PARALLEL_DOWNLOAD - 1, Len(dlist)))

\* downloadableMessages.slice(i, i + MAX_PARALLEL_DOWNLOAD)
WindowAt(dlist, i) == SubSeq(dlist, i + 1, Min(i + MAX_PARALLEL_DOWNLOAD, Len(dlist)))

Range(seq) == {seq[i] : i \in 1..Len(seq)}

\* the newest element instead of the oldest
Newest(seq) == seq[1]

\* messages[messages.length - 1], batch[batch.length - 1]
Last(seq) == seq[Len(seq)]

\* What the callers put in the 4th and 5th argument of downloadMessageMedia
\* (client, msg, mediaPath, channelId, progressManager): the parameters there
\* are progressManager and retryCount.
CallerProgressArg == IF wiring = "declared" THEN "pm" ELSE "chan"
CallerRetryArg == IF wiring = "declared" THEN 0 ELSE NotANumber

\* getMessageOffset: lastSelection.messageOffsetId || 0
getMessageOffset == cursor

\* a window check that accepts any outcome
AnyOutcome(win) == TRUE

\* results.every((success) => success) over the settled window
allSucceeded(win) == \A m \in Range(win) : jobs[m].st = "true"

\* Promise.all over the window: rejected as soon as one call rejects,
\* fulfilled when every call returned
WindowRejected(win) == \E m \in Range(win) : jobs[m].st = "rejected"
WindowFulfilled(win) == \A m \in Range(win) : jobs[m].st \in {"true", "false"}

\* handle(): a run starts from the persisted offset
StartRun ==
  /\ pc = "off"
  /\ runs < MaxRuns
  /\ pc' = "fetch"
  /\ runs' = runs + 1
  /\ offsetArg' = getMessageOffset
  /\ hadFile' = {m \in Ids : checkFileExist(disk, m)}
  /\ UNCHANGED <<msgs, wiring, store, probe, linkRun, disk, cursor, page, dl, wi, jobs, winCursor,
                 prevFailed, prevLeft, progress>>

\* downloadChannel lines 153-188 / 209-225: the page arrives, is filtered,
\* and the first window is started; a page with nothing to download is
\* recorded and the next page is asked for.
FetchPage(pg) ==
  /\ pc = "fetch"
  /\ \E dlist \in {Downloadable(disk, pg)} :
     \E r \in {StartJobs(WindowAt(dlist, 0), disk, jobs,
                         CallerProgressArg, CallerRetryArg)} :
        /\ page' = pg
        /\ dl' = dlist
        /\ wi' = 0
        /\ IF pg = <<>>
           THEN /\ pc' = "returned"
                /\ UNCHANGED <<disk, jobs, offsetArg, winCursor, progress>>
           ELSE IF dlist = <<>>
           THEN /\ pc' = "fetch"
                /\ offsetArg' = Last(pg)
                /\ progress' = NewProgress
                /\ UNCHANGED <<disk, jobs, winCursor>>
           ELSE /\ pc' = "window"
                /\ disk' = r.d
                /\ jobs' = r.js
                /\ winCursor' = cursor
                /\ progress' = PmAtStartAll(NewProgress, WindowAt(dlist, 0), r.js)
                /\ UNCHANGED offsetArg
  /\ UNCHANGED <<msgs, wiring, store, probe, linkRun, cursor, runs, prevFailed, prevLeft, hadFile>>

PageArrives == FetchPage(PageOf(offsetArg))

\* the page of a channel that holds fewer than MESSAGE_LIMIT messages
WholePageArrives == FetchPage(getMessages(MESSAGE_LIMIT, offsetArg))

\* getMessages / getMessageDetail throws: the catch of downloadChannel
PageFails ==
  /\ pc = "fetch"
  /\ pc' = "returned"
  /\ UNCHANGED <<msgs, wiring, store, probe, linkRun, disk, cursor, offsetArg, page, dl, wi, jobs, runs,
                 winCursor, prevFailed, prevLeft, hadFile, progress>>

\* await Promise.all(...) settles (lines 190-225)
WindowSettled ==
  /\ pc = "window"
  /\ LET win == WindowAt(dl, wi)
         more == wi + MAX_PARALLEL_DOWNLOAD < Len(dl)
         r == StartJobs(WindowAt(dl, wi + MAX_PARALLEL_DOWNLOAD), disk, jobs,
                        CallerProgressArg, CallerRetryArg)
     IN /\ WindowRejected(win) \/ WindowFulfilled(win)
        /\ IF allSucceeded(win)
           THEN \* updateLastSelection({messageOffsetId: oldestInBatch.id})
                /\ cursor' = Last(win)
                /\ IF more
                   THEN /\ wi' = wi + MAX_PARALLEL_DOWNLOAD
                        /\ disk' = r.d
                        /\ jobs' = r.js
                        /\ winCursor' = Last(win)
                        /\ progress' = PmAtStartAll(progress,
                                          WindowAt(dl, wi + MAX_PARALLEL_DOWNLOAD), r.js)
                        /\ UNCHANGED <<pc, offsetArg>>
                   ELSE /\ pc' = "fetch"
                        /\ offsetArg' = Last(page)
                        /\ progress' = Stopped(progress)
                        /\ UNCHANGED <<disk, jobs, wi, winCursor>>
           ELSE \* a rejection lands in the catch; a false result stops the
                \* ProgressManager and returns
                /\ pc' = "returned"
                /\ progress' = IF WindowRejected(win) THEN progress
                               ELSE Stopped(progress)
                /\ UNCHANGED <<disk, cursor, jobs, wi, offsetArg, winCursor>>
  /\ UNCHANGED <<msgs, wiring, store, probe, linkRun, page, dl, runs, prevFailed, prevLeft, hadFile>>

\* The process ends: process.exit(0) at the end of handle(), or a kill at any
\* point.  A chunk whose write was not yet acknowledged may have reached the
\* file in part.
Writing == {m \in Ids : jobs[m].st = "write"}

RECURSIVE CutWrites(_, _, _)
CutWrites(seq, d, kk) ==
  IF seq = <<>> THEN d
  ELSE LET m == Head(seq)
           part == SubSeq(jobs[m].chunk, 1, Min(kk[m], Len(jobs[m].chunk)))
       IN CutWrites(Tail(seq),
                    IF m \in Writing THEN WriteFile(d, jobs[m], part) ELSE d, kk)

Terminate ==
  /\ pc \in {"fetch", "window", "returned"}
     \/ (pc \in {"unit", "job"} /\ \E m \in Ids : jobs[m].st \in InFlight)
  /\ \E kk \in [Writing -> 0..PartSize] :
       LET d2 == CutWrites(IdsDesc, disk, [m \in Ids |-> IF m \in Writing THEN kk[m] ELSE 0])
       IN /\ disk' = d2
          /\ prevFailed' = {m \in Ids : jobs[m].bad}
          /\ prevLeft' = [m \in Ids |-> IF jobs[m].bad
                                        THEN d2[getPartialFilePath(jobs[m].path)]
                                        ELSE NoFile]
  /\ pc' = IF pc \in {"unit", "job"} THEN pc ELSE "off"
  /\ jobs' = [m \in Ids |-> NoJob]
  /\ progress' = NewProgress
  /\ page' = <<>>
  /\ dl' = <<>>
  /\ wi' = 0
  /\ offsetArg' = 0
  /\ UNCHANGED <<msgs, wiring, store, probe, linkRun, cursor, runs, hadFile, winCursor>>

\* ---------------------------------------------------------- specifications
MsgTypes == {"doc", "photo", "web"}

\* the channels explored: documents that all carry the same file name, documents
\* and photos alternating, and a channel whose newer messages are web previews
Layouts == {"docs", "mixed", "webs"}

TypeOf(layout, m) ==
  CASE layout = "docs" -> "doc"
    [] layout = "mixed" -> IF m % 2 = 0 THEN "photo" ELSE "doc"
    [] OTHER -> IF m = 1 THEN "photo" ELSE "web"

\* the declared size of message m in a channel run: every size 1..MaxSize occurs
SizeOf(m) == 1 + (m % MaxSize)

InitCommon ==
  /\ cursor = 0
  /\ offsetArg = 0
  /\ page = <<>>
  /\ dl = <<>>
  /\ wi = 0
  /\ jobs = [m \in Ids |-> NoJob]
  /\ runs = 0
  /\ winCursor = 0
  /\ prevFailed = {}
  /\ prevLeft = [m \in Ids |-> NoFile]
  /\ hadFile = {}
  /\ progress = NewProgress
  /\ store \in {[files |-> fs, op |-> <<"new", "chanA">>, ret |-> Gives(0)] :
                  fs \in IF pc = "store" THEN [Scopes -> TrackingFiles]
                         ELSE {[sc \in Scopes |-> [kind |-> "missing", members |-> NoMembers]]}}
  /\ probe \in {[media |-> md, out |-> NullInfo, called |-> FALSE] :
                  md \in IF pc \in {"info", "totals"} THEN Medias
                         ELSE {[kind |-> "webpage", size |-> 0, sizes |-> <<>>]}}
  /\ linkRun \in {[links |-> ls, videos |-> vs, i |-> 1, processed |-> {}, linked |-> <<>>] :
                    ls \in IF pc = "links" THEN LinkLists ELSE {<<>>},
                    vs \in IF pc = "links" THEN SUBSET LinkIds ELSE {{}}}

\* a first run over an empty export folder
Init ==
  /\ \E layout \in Layouts :
       msgs = [m \in Ids |-> [type |-> TypeOf(layout, m), size |-> SizeOf(m), known |-> TRUE]]
  /\ disk = [n \in Names |-> NoFile]
  /\ pc = "off"
  /\ wiring = "called"
  /\ InitCommon

Next ==
  \/ StartRun
  \/ PageArrives
  \/ PageFails
  \/ \E j \in Ids : JobProgress(j)
  \/ \E j \in Ids, e \in TransportErrors \cup {"IOError"} : JobFails(j, e)
  \/ WindowSettled
  \/ Terminate

Spec == Init /\ [][Next]_vars


\* ------------------------------------------- resumableDownload on its own
\* A caller of the exported resumableDownload(client, message, mediaPath,
\* progressCallback) for message 1: cb = "ok" is a callback that returns (or
\* none), cb = "throw" one that throws.
Call(cb) ==
  /\ pc = "unit"
  /\ jobs[1].st \notin InFlight
  /\ runs < MaxCalls
  /\ LET r == BeginTransfer(1, disk, [NoJob EXCEPT !.path = BasePath(1),
                                                   !.caller = "direct",
                                                   !.cb = cb])
     IN /\ disk' = OpenPartial(r.d, r.job)
        /\ jobs' = [jobs EXCEPT ![1] = r.job]
  /\ runs' = runs + 1
  /\ hadFile' = {m \in Ids : checkFileExist(disk, m)}
  /\ UNCHANGED <<msgs, wiring, store, probe, linkRun, cursor, pc, offsetArg, page, dl, wi, winCursor,
                 prevFailed, prevLeft, progress>>

\* one media object of any size, declared or not, and an empty folder
InitTransfer ==
  /\ \E sz \in 1..MaxSize, kn \in BOOLEAN, ty \in {"doc", "photo"} :
       msgs = [m \in Ids |-> [type |-> ty, size |-> sz, known |-> kn]]
  /\ disk = [n \in Names |-> NoFile]
  /\ pc = "unit"
  /\ wiring = "called"
  /\ InitCommon

NextTransfer ==
  \/ \E cb \in {"ok", "throw"} : Call(cb)
  \/ \E j \in Ids : JobProgress(j)
  \/ \E j \in Ids, e \in TransportErrors \cup {"IOError"} : JobFails(j, e)
  \/ Terminate

SpecTransfer == InitTransfer /\ [][NextTransfer]_vars

\* ---------------------------------------- downloadMessageMedia on its own
\* A call of the exported downloadMessageMedia for message 1.  With the
\* arguments in the declared order the caller gives a ProgressManager or none,
\* and no retryCount (default 0); with the arguments as the callers of this
\* repository pass them it receives CallerProgressArg and CallerRetryArg.
CallJob(withPm) ==
  /\ pc = "job"
  /\ jobs[1].st \notin InFlight
  /\ runs < MaxCalls
  /\ LET pmArg == IF wiring = "declared" /\ ~withPm THEN "null" ELSE CallerProgressArg
         rcArg == CallerRetryArg
         r == StartJobs(<<1>>, disk, jobs, pmArg, rcArg)
     IN /\ disk' = r.d
        /\ jobs' = r.js
        /\ progress' = PmAtStartAll(progress, <<1>>, r.js)
  /\ runs' = runs + 1
  /\ hadFile' = {m \in Ids : checkFileExist(disk, m)}
  /\ UNCHANGED <<msgs, wiring, store, probe, linkRun, cursor, pc, offsetArg, page, dl, wi, winCursor,
                 prevFailed, prevLeft>>

InitJob ==
  /\ \/ \E sz \in 1..MaxSize, kn \in BOOLEAN :
          msgs = [m \in Ids |-> [type |-> "photo", size |-> sz, known |-> kn]]
     \/ \E ty \in {"thumb", "web", "text"} :
          msgs = [m \in Ids |-> [type |-> ty, size |-> 1, known |-> FALSE]]
  /\ disk = [n \in Names |-> NoFile]
  /\ pc = "job"
  /\ wiring \in {"called", "declared"}
  /\ InitCommon

NextJob ==
  \/ \E withPm \in BOOLEAN : CallJob(withPm)
  \/ \E j \in Ids : JobProgress(j)
  \/ \E j \in Ids, e \in TransportErrors \cup {"IOError"} : JobFails(j, e)
  \/ Terminate

SpecJob == InitJob /\ [][NextJob]_vars

\* ------------------------------------------- a run over an export folder
\* that already holds the complete files of some messages
Holder(had, p) == {m \in had : msgs[m].type \in {"doc", "photo"} /\ BasePath(m) = p}

InitRerun ==
  /\ \E layout \in Layouts :
       msgs = [m \in Ids |-> [type |-> TypeOf(layout, m), size |-> SizeOf(m), known |-> TRUE]]
  /\ \E had \in SUBSET Ids :
       /\ had # {}
       /\ disk = [n \in Names |->
                    IF n[2] = 0 /\ Holder(had, n[1]) # {}
                    THEN [exists |-> TRUE,
                          data |-> Content(CHOOSE m \in Holder(had, n[1]) :
                                             \A o \in Holder(had, n[1]) : o <= m)]
                    ELSE NoFile]
  /\ pc = "off"
  /\ wiring = "called"
  /\ InitCommon

SpecRerun == InitRerun /\ [][Next]_vars


\* a single run of the program, in which the event loop runs every
\* continuation that is ready
StartOnce == runs = 0 /\ StartRun

NextOneRun ==
  \/ StartOnce
  \/ PageArrives
  \/ PageFails
  \/ \E j \in Ids : JobProgress(j)
  \/ \E j \in Ids, e \in TransportErrors \cup {"IOError"} : JobFails(j, e)
  \/ WindowSettled
  \/ Terminate

SpecFair ==
  /\ Init
  /\ [][NextOneRun]_vars
  /\ WF_vars(WindowSettled)
  /\ \A j \in Ids : WF_vars(JobProgress(j))

\* a single run over a channel of photos shorter than a page, each photo of
\* one or two byte units, the call of downloadMessageMedia written with the
\* arguments in either order
InitBatch ==
  /\ msgs = [m \in Ids |-> [type |-> "photo", size |-> 1 + (m % 2), known |-> TRUE]]
  /\ disk = [n \in Names |-> NoFile]
  /\ pc = "off"
  /\ wiring \in {"called", "declared"}
  /\ InitCommon

\* the failures of the batch specification: a timeout of the remote stream
\* or a failed write, in at most MaxFailures attempts of a job
BatchErrors == {"Timeout", "IOError"}

NextBatch ==
  \/ StartOnce
  \/ WholePageArrives
  \/ PageFails
  \/ \E j \in Ids : JobProgress(j)
  \/ \E j \in Ids, e \in BatchErrors : jobs[j].tries <= MaxFailures /\ JobFails(j, e)
  \/ WindowSettled
  \/ Terminate

SpecBatch == InitBatch /\ [][NextBatch]_vars

\* a single run over a channel longer than a page, any message of it a
\* one-unit photo or a web page preview, no transfer failing
InitPages ==
  /\ msgs \in {[m \in Ids |-> [type |-> ty[m], size |-> 1, known |-> TRUE]] :
                 ty \in [Ids -> {"photo", "web"}]}
  /\ disk = [n \in Names |-> NoFile]
  /\ pc = "off"
  /\ wiring \in {"called", "declared"}
  /\ InitCommon

NextPages ==
  \/ StartOnce
  \/ PageArrives
  \/ PageFails
  \/ \E j \in Ids : JobProgress(j)
  \/ WindowSettled

SpecPages == InitPages /\ [][NextPages]_vars

\* the same run with transfer failures, every remote call answered or
\* failed in the end, every backoff wait ending, and no kill of the process
NextLive ==
  \/ StartOnce
  \/ PageArrives
  \/ PageFails
  \/ \E j \in Ids : JobProgress(j)
  \/ \E j \in Ids, e \in BatchErrors : jobs[j].tries <= MaxFailures /\ JobFails(j, e)
  \/ WindowSettled

SpecLive ==
  /\ InitPages
  /\ [][NextLive]_vars
  /\ WF_vars(PageArrives)
  /\ WF_vars(WindowSettled)
  /\ \A j \in Ids : WF_vars(JobProgress(j))

\* consecutive runs over the same channel, each ended by process.exit or
\* a kill, with failed writes of the partial file
NextRuns ==
  \/ StartRun
  \/ PageArrives
  \/ PageFails
  \/ \E j \in Ids : JobProgress(j)
  \/ \E j \in Ids : jobs[j].tries <= MaxFailures /\ JobFails(j, "IOError")
  \/ WindowSettled
  \/ Terminate

SpecRuns == InitPages /\ [][NextRuns]_vars

\* ------------------------------------------------ ProgressManager on its own
\* Calls of the methods of one ProgressManager instance in any order, for two
\* download ids, with any byte count and any total (0 = unknown).
PmIds == {1, 2}

\* the totals handed to startDownload and updateProgress: unknown, and two
\* different known sizes
PmTotals == {0, PartSize, MaxSize}

PmOther == <<msgs, wiring, store, probe, linkRun, disk, cursor, pc, offsetArg, page, dl, wi, jobs, runs,
             winCursor, prevFailed, prevLeft, hadFile>>

PmStart(id, t) ==
  /\ pc = "pm"
  /\ progress' = After(progress, startDownload(progress.bars, id, t), "startDownload", id)
  /\ UNCHANGED PmOther

PmUpdate(id, d, t) ==
  /\ pc = "pm"
  /\ progress' = After(progress, updateProgress(progress.bars, id, d, t), "updateProgress", id)
  /\ UNCHANGED PmOther

PmComplete(id, success) ==
  /\ pc = "pm"
  /\ progress' = After(progress, completeDownload(progress.bars, id, success),
                       "completeDownload", id)
  /\ UNCHANGED PmOther

PmFail(id) ==
  /\ pc = "pm"
  /\ progress' = After(progress, failDownload(progress.bars, id), "failDownload", id)
  /\ UNCHANGED PmOther

PmStop ==
  /\ pc = "pm"
  /\ progress' = Stopped(progress)
  /\ UNCHANGED PmOther

InitProgress ==
  /\ msgs = [m \in Ids |-> [type |-> "photo", size |-> SizeOf(m), known |-> TRUE]]
  /\ disk = [n \in Names |-> NoFile]
  /\ pc = "pm"
  /\ wiring = "declared"
  /\ InitCommon

NextProgress ==
  \/ \E id \in PmIds, t \in PmTotals : PmStart(id, t)
  \/ \E id \in PmIds, d \in 0..MaxSize, t \in PmTotals : PmUpdate(id, d, t)
  \/ \E id \in PmIds, success \in BOOLEAN : PmComplete(id, success)
  \/ \E id \in PmIds : PmFail(id)
  \/ PmStop

SpecProgress == InitProgress /\ [][NextProgress]_vars

\* ---------------------------------------------- the tracking files on their own
\* Calls of getMessageOffset and updateLastSelection for two scopes, on
\* tracking files in any condition.
StoreOther == <<msgs, wiring, probe, linkRun, disk, cursor, pc, offsetArg, page, dl, wi, jobs, runs,
                winCursor, prevFailed, prevLeft, hadFile, progress>>

StoreRead(sc) ==
  /\ pc = "store"
  /\ store' = [files |-> store.files, op |-> <<"getMessageOffset", sc>>,
               ret |-> getMessageOffsetOf(store.files[sc])]
  /\ UNCHANGED StoreOther

StoreUpdate(sc, object, writeOk) ==
  /\ pc = "store"
  /\ store' = [files |-> [store.files EXCEPT ![sc] = updateLastSelection(@, object, writeOk)],
               op |-> <<"updateLastSelection", sc>>,
               ret |-> Gives(0)]
  /\ UNCHANGED StoreOther

InitStore ==
  /\ msgs = [m \in Ids |-> [type |-> "photo", size |-> SizeOf(m), known |-> TRUE]]
  /\ disk = [n \in Names |-> NoFile]
  /\ pc = "store"
  /\ wiring = "called"
  /\ InitCommon

NextStore ==
  \/ \E sc \in Scopes : StoreRead(sc)
  \/ \E sc \in Scopes, object \in Objects, writeOk \in BOOLEAN : StoreUpdate(sc, object, writeOk)

SpecStore == InitStore /\ [][NextStore]_vars

\* -------------------------------------------- extractFileInfo on its own
InfoOther == <<msgs, wiring, store, linkRun, disk, cursor, pc, offsetArg, page, dl, wi, jobs, runs,
               winCursor, prevFailed, prevLeft, hadFile, progress>>

ExtractCall ==
  /\ pc = "info"
  /\ ~probe.called
  /\ probe' = [probe EXCEPT !.out = extractFileInfo(probe.media), !.called = TRUE]
  /\ UNCHANGED InfoOther

InitInfo ==
  /\ msgs = [m \in Ids |-> [type |-> "photo", size |-> SizeOf(m), known |-> TRUE]]
  /\ disk = [n \in Names |-> NoFile]
  /\ pc = "info"
  /\ wiring = "called"
  /\ InitCommon

NextInfo == ExtractCall

SpecInfo == InitInfo /\ [][NextInfo]_vars

\* ------------------------- the totals of one downloadMessageMedia call
\* One call of downloadMessageMedia for message 1 with a ProgressManager, on
\* any media and no partial file: the registration, the callbacks of
\* resumableDownload as the chunks are written, and the completion.

\* message.media?.document?.size || message.media?.photo?.sizes?.slice(-1)[0]?.size || 0
dmmTotalBytes(media) ==
  IF media.kind = "document" /\ media.size # 0 THEN media.size
  ELSE IF media.kind = "photo" /\ media.sizes # <<>>
       THEN media.sizes[Len(media.sizes)].size
  ELSE 0

\* const totalSize = fileSize || bigInt.zero
totalSize(info) == IF info.known THEN info.fileSize ELSE 0

\* the bytes the server streams for the location of info: the size of the
\* chosen variant or of the document; a document without a size field has
\* some length
RemoteLengths(info) ==
  IF info.known THEN {info.fileSize} ELSE 1..MaxVariantSize

TotalsOther == <<msgs, wiring, store, linkRun, disk, cursor, pc, offsetArg, page, dl, wi, jobs,
                 runs, winCursor, prevFailed, prevLeft, hadFile>>

\* lines 45-66 and the extractFileInfo call of resumableDownload
RegisterTotal ==
  /\ pc = "totals"
  /\ ~probe.called
  /\ probe.media.kind \in {"document", "photo"}
  /\ probe' = [probe EXCEPT !.out = extractFileInfo(probe.media), !.called = TRUE]
  /\ progress' = After(progress,
                       startDownload(progress.bars, 1, dmmTotalBytes(probe.media)),
                       "startDownload", 1)
  /\ UNCHANGED TotalsOther

\* a chunk was written: progressCallback(downloaded, totalSize)
ReportChunk(c) ==
  /\ pc = "totals"
  /\ probe.called
  /\ probe.out.found
  /\ progress.bars[1].present
  /\ \E n \in RemoteLengths(probe.out) : progress.bars[1].value + c <= n
  /\ progress' = After(progress,
                       updateProgress(progress.bars, 1, progress.bars[1].value + c,
                                      totalSize(probe.out)),
                       "updateProgress", 1)
  /\ UNCHANGED <<probe, TotalsOther>>

\* resumableDownload returned or threw: completeDownload or failDownload
FinishTotal(success) ==
  /\ pc = "totals"
  /\ probe.called
  /\ progress.bars[1].present
  /\ success => probe.out.found /\ progress.bars[1].value > 0
  /\ progress' = After(progress, completeDownload(progress.bars, 1, success),
                       IF success THEN "completeDownload" ELSE "failDownload", 1)
  /\ UNCHANGED <<probe, TotalsOther>>

InitTotals ==
  /\ msgs = [m \in Ids |-> [type |-> "photo", size |-> SizeOf(m), known |-> TRUE]]
  /\ disk = [n \in Names |-> NoFile]
  /\ pc = "totals"
  /\ wiring = "declared"
  /\ InitCommon

NextTotals ==
  \/ RegisterTotal
  \/ \E c \in 1..MaxVariantSize : ReportChunk(c)
  \/ \E success \in BOOLEAN : FinishTotal(success)

SpecTotals == InitTotals /\ [][NextTotals]_vars

\* ------------------------------------------ the loop over the links on its own
LinkOther == <<msgs, wiring, store, probe, disk, cursor, pc, offsetArg, page, dl, wi, jobs,
               runs, winCursor, prevFailed, prevLeft, hadFile, progress>>

LinkStep(fetched) ==
  /\ pc = "links"
  /\ linkRun.i <= Len(linkRun.links)
  /\ linkRun' = [LinkIteration(linkRun, linkRun.links[linkRun.i], fetched)
                   EXCEPT !.i = linkRun.i + 1]
  /\ UNCHANGED LinkOther

InitLinks ==
  /\ msgs = [m \in Ids |-> [type |-> "photo", size |-> SizeOf(m), known |-> TRUE]]
  /\ disk = [n \in Names |-> NoFile]
  /\ pc = "links"
  /\ wiring = "called"
  /\ InitCommon

NextLinks == \E fetched \in BOOLEAN : LinkStep(fetched)

SpecLinks == InitLinks /\ [][NextLinks]_vars

\* ======================================================= cursor and windows
WindowJobs == Range(WindowAt(dl, wi))
Submitted(m) == jobs[m].st # "none"
SomeJobFailed == \E m \in Ids : jobs[m].bad
CompleteFile(m) == [exists |-> TRUE, data |-> Content(m)]
CursorCovers(m) == cursor # 0 /\ cursor <= m

\* C1: the persisted cursor is written for a window only when every job of
\* that window returned success, and then to the oldest id of the window; while
\* a job of the current window has ended Failed, and after the run has ended
\* with such a job, the cursor is the value it had when that window started.
C1_Step ==
  /\ cursor' # cursor =>
       /\ pc = "window"
       /\ \A m \in WindowJobs : jobs[m].st = "true" /\ ~jobs[m].bad
       /\ cursor' = Last(WindowAt(dl, wi))
  /\ (\E m \in Ids : jobs'[m].bad) => cursor' = winCursor'
  /\ (pc' = "off" /\ prevFailed' # {}) => cursor' = winCursor'

C3_Step ==
  SomeJobFailed =>
    /\ \A m \in Ids : jobs[m].st = "none" => jobs'[m].st = "none"
    /\ pc' # "fetch"
    /\ cursor' = cursor
    /\ pc' # pc => pc' \in {"returned", "off"}

C4_FailedJobResumesNextRun ==
  (prevFailed # {} /\ \E k \in Ids : Submitted(k)) =>
     \A m \in prevFailed :
       /\ Submitted(m)
       /\ prevLeft[m].exists
       /\ jobs[m].seen = prevLeft[m]


\* ============================================================ one transfer
\* the destination of the transfer specification and its partial file
X == BasePath(1)
PartialX == disk[getPartialFilePath(X)]
T == msgs[1].size
Prefix(k) == SubSeq(Content(1), 1, k)

\* C5: a call that resumed from the bytes an interrupted call left (offset
\* k with 0 < k < T) and returned true leaves at the final path exactly the
\* file an uninterrupted transfer produces, and no partial file.
ResumedFrom(k) == jobs[1].seen.exists /\ Len(jobs[1].seen.data) = k

C5_ResumeEqualsUninterrupted ==
  \A k \in 1..(T - 1) :
    (pc = "unit" /\ jobs[1].st = "rdTrue" /\ ResumedFrom(k)) =>
       /\ jobs[1].off0 = k
       /\ disk[FinalName(X)] = [exists |-> TRUE, data |-> Uninterrupted(1, 0)]
       /\ ~PartialX.exists

\* a resumed call that fetched at least one chunk has returned true
C5_Witness ==
  /\ pc = "unit"
  /\ jobs[1].st = "rdTrue"
  /\ \E k \in 1..(T - 1) : ResumedFrom(k)
  /\ jobs[1].nfetch >= 1
  /\ disk[FinalName(X)].exists

\* C6: an attempt on an object of declared size T that finds a partial file
\* of length >= T starts over: offset 0, truncate-create open, the partial
\* file holds only what this attempt has written, and no chunk is requested
\* at an offset >= T (for any attempt on a declared size).
C6_StalePartialDiscarded ==
  (pc = "unit" /\ jobs[1].st # "none" /\ msgs[1].known) =>
     /\ (jobs[1].st = "write" => jobs[1].off0 + jobs[1].got < T)
     /\ (jobs[1].seen.exists /\ Len(jobs[1].seen.data) >= T) =>
          /\ jobs[1].off0 = 0
          /\ jobs[1].mode = "w"
          /\ jobs[1].st \in {"stream", "write"} =>
               PartialX = [exists |-> TRUE, data |-> Prefix(jobs[1].got)]
          /\ jobs[1].st = "rdTrue" => jobs[1].nfetch = CeilDiv(T, PartSize)

\* an attempt that found a partial of length >= T has written a chunk again
C6_Witness ==
  /\ pc = "unit"
  /\ msgs[1].known
  /\ jobs[1].seen.exists
  /\ Len(jobs[1].seen.data) >= T
  /\ jobs[1].st = "stream"
  /\ jobs[1].got > 0
  /\ jobs[1].got < T

\* C7: when the stream raises, a write fails or the callback throws during a
\* transfer, the call ends by rethrowing; the partial file is then on disk
\* with exactly the bytes acknowledged so far, and the final path is as it
\* was.
C7_Step ==
  (pc = "unit" /\ jobs[1].st \in {"stream", "write"}
     /\ jobs'[1].st \notin {"stream", "write", "closing", "none"}) =>
       /\ jobs'[1].st = "rdThrew"
       /\ disk'[getPartialFilePath(X)] =
            [exists |-> TRUE, data |-> Prefix(jobs'[1].downloaded)]
       /\ Len(disk'[getPartialFilePath(X)].data) >= Len(PartialX.data)
       /\ disk'[FinalName(X)] = disk[FinalName(X)]

C8_ChunkCount ==
  (pc = "unit" /\ jobs[1].st = "rdTrue" /\ msgs[1].known /\ ~jobs[1].seen.exists) =>
     /\ jobs[1].nfetch = CeilDiv(T, PartSize)
     /\ disk[FinalName(X)].exists
     /\ Len(disk[FinalName(X)].data) = T
     /\ ~PartialX.exists

\* the largest object arrived in more than one chunk, the last one short or
\* full
C8_Witness ==
  /\ pc = "unit"
  /\ jobs[1].st = "rdTrue"
  /\ msgs[1].known
  /\ ~jobs[1].seen.exists
  /\ T = MaxSize
  /\ jobs[1].nfetch >= 2
  /\ jobs[1].nfetch = CeilDiv(MaxSize, PartSize)

\* C9: a file appears or changes at a final path only by the rename of its
\* partial file after the stream is exhausted; every other step leaves the
\* final paths alone; a file at a final path is the whole object, of length
\* T when T is declared.
C9_Step ==
  /\ \A p \in Paths :
       disk'[FinalName(p)] # disk[FinalName(p)] =>
         /\ p = X
         /\ jobs[1].st = "closing"
         /\ StreamExhausted(1, jobs[1].off0 + jobs[1].got)
         /\ disk'[FinalName(p)] = disk[getPartialFilePath(p)]
         /\ ~disk'[getPartialFilePath(p)].exists
  /\ \A p \in Paths :
       disk'[FinalName(p)].exists =>
         /\ disk'[FinalName(p)].data = Content(1)
         /\ Len(disk'[FinalName(p)].data) = T

C9_FinalOnlyByRename == [][C9_Step]_vars

\* the whole object is at the final path while a later call is writing
\* chunks to the partial file next to it
C9_Witness ==
  /\ pc = "unit"
  /\ disk[FinalName(X)].exists
  /\ jobs[1].st = "stream"
  /\ PartialX.exists
  /\ Len(PartialX.data) > 0
  /\ Len(PartialX.data) < T

\* ================================================================== rerun
\* C10: in a run, a message whose destination file existed when the run
\* started is rejected by canDownload, is never submitted and causes no chunk
\* request; a page whose messages all have their files submits nothing and
\* the run moves on.
C10_ExistingFilesSkipped ==
  pc # "off" =>
    /\ \A m \in hadFile :
         /\ ~canDownload(disk, m)
         /\ ~Submitted(m)
         /\ jobs[m].nfetch = 0
    /\ (page # <<>> /\ Range(page) \subseteq hadFile) =>
         /\ dl = <<>>
         /\ pc # "window"
         /\ \A m \in Range(page) : ~Submitted(m)

\* a page of messages that all had their files was passed over and the next
\* page was asked for
C10_Witness ==
  /\ pc = "fetch"
  /\ page # <<>>
  /\ Range(page) \subseteq hadFile
  /\ \E m \in Range(page) : msgs[m].type = "photo"
  /\ offsetArg = Last(page)
  /\ \A m \in Ids : ~Submitted(m)


\* ================================================== retry / backoff policy
\* C11 as stated: a job invokes resumableDownload at most 5 times.
C11_AtMostFiveAttempts ==
  pc = "job" => jobs[1].tries <= 5

\* C11: a job invokes resumableDownload at most MAX_RETRIES + 1 = 6 times (the
\* first attempt and at most 5 retries); it is never put into a backoff wait
\* after its 6th attempt, and a job that used all 6 has ended.
C11_AtMostSixAttempts ==
  pc = "job" =>
    /\ jobs[1].tries <= MAX_RETRIES + 1
    /\ jobs[1].tries <= 6
    /\ (jobs[1].st = "wait" => jobs[1].tries <= 5)

\* the 6th attempt of a job failed with a retryable error and the job
\* returned false
C11_Witness ==
  /\ pc = "job"
  /\ jobs[1].tries = 6
  /\ jobs[1].rc = 5
  /\ jobs[1].st = "false"


JobErrors == TransportErrors \cup {"IOError"}

\* C12: when the failure of the attempt with retry index i puts the job into
\* a backoff wait, i is in 0..4 and the wait is 5, 15, 30, 60, 120 seconds for
\* i = 0..4 if the error carries no hint, and h + 1 seconds if it carries a
\* hint of h seconds.
C12_Step ==
  \A e \in JobErrors :
    (pc = "job" /\ JobFails(1, e) /\ jobs'[1].st = "wait") =>
       /\ jobs[1].rc \in 0..4
       /\ jobs[1].rc = jobs[1].tries - 1
       /\ jobs'[1].wait = IF ErrSeconds(e) # 0 THEN ErrSeconds(e) + 1
                          ELSE <<5, 15, 30, 60, 120>>[jobs[1].rc + 1]

RetryableClass == {"Timeout", "Flood", "Server"}

\* C13: when an attempt of a job fails and the attempts are not used up, the
\* job goes into a backoff wait if and only if the error is of the retryable
\* class; on any other error it waits for nothing, makes no further attempt
\* and returns false.
C13_Step ==
  \A e \in JobErrors :
    (pc = "job" /\ JobFails(1, e) /\ jobs[1].tries <= MAX_RETRIES) =>
       IF e \in RetryableClass
       THEN jobs'[1].st = "wait"
       ELSE jobs'[1].st = "false" /\ jobs'[1].wait = 0 /\ jobs'[1].tries = jobs[1].tries

C13_RetriedIffRetryable == [][C13_Step]_vars


\* C14: when an attempt of a job fails with a retryable error and no further
\* attempt follows (every attempt before it failed with a retryable error
\* too), downloadMessageMedia returns false, the ProgressManager holds no
\* entry for the job, and the partial file is on disk with every byte whose
\* write was acknowledged.
C14_Step ==
  \A e \in RetryableClass :
    (pc = "job" /\ JobFails(1, e) /\ jobs'[1].st # "wait") =>
       /\ jobs'[1].st = "false"
       /\ ~progress'.bars[1].present
       /\ disk'[getPartialFilePath(jobs[1].path)].exists
       /\ Len(disk'[getPartialFilePath(jobs[1].path)].data) = jobs'[1].downloaded

C14_ExhaustedReturnsFalse == [][C14_Step]_vars


\* C15: every attempt of a job, first or retry, asks for the remote stream at
\* the length the partial file has when the attempt starts, 0 if the file is
\* absent, empty or was discarded by the corruption guard, and opens the file
\* for append exactly when that offset is > 0; every chunk is requested at
\* the current length of the partial file, so no byte in it is fetched again.
C15_AttemptStartsAtPartialLength ==
  (pc = "job" /\ jobs[1].st \in {"stream", "write", "closing"}) =>
     LET existing == IF jobs[1].seen.exists THEN Len(jobs[1].seen.data) ELSE 0
         discarded == msgs[1].known /\ existing >= T
         partial == disk[getPartialFilePath(jobs[1].path)]
     IN /\ jobs[1].off0 = IF discarded THEN 0 ELSE existing
        /\ (jobs[1].mode = "a") <=> (jobs[1].off0 > 0)
        /\ partial.exists
        /\ jobs[1].off0 + jobs[1].got = Len(partial.data)
        /\ partial.data = Prefix(Len(partial.data))

\* a retry resumed in append mode from what the earlier attempt wrote and
\* is writing its next chunk
C15_Witness ==
  /\ pc = "job"
  /\ jobs[1].tries >= 2
  /\ jobs[1].st = "write"
  /\ jobs[1].mode = "a"
  /\ jobs[1].off0 > 0
  /\ jobs[1].got > 0


\* ============================================================== concurrency
InFlightJobs == {m \in Ids : jobs[m].st \in InFlight}

\* C16: at every instant of a run at most MAX_PARALLEL_DOWNLOAD = 3 calls of
\* downloadMessageMedia are started and not yet returned, a call sleeping in
\* its retry backoff included.
C16_AtMostThreeInFlight ==
  /\ MAX_PARALLEL_DOWNLOAD = 3
  /\ Cardinality(InFlightJobs) <= MAX_PARALLEL_DOWNLOAD

\* a list of more than three downloadable messages whose first window has
\* three calls in flight, one of them in its backoff wait
C16_Witness ==
  /\ pc = "window"
  /\ Len(dl) > MAX_PARALLEL_DOWNLOAD
  /\ Cardinality(InFlightJobs) = MAX_PARALLEL_DOWNLOAD
  /\ \E m \in InFlightJobs : jobs[m].st = "wait"

\* no job of the run has ended in failure so far
NoJobFailed == \A m \in Ids : ~jobs[m].bad /\ jobs[m].st \notin {"false", "rejected"}

Writers == {m \in Ids : jobs[m].st \in {"stream", "write", "closing"}}

\* C18: no two in-flight transfers have the same partial file open for
\* writing, whatever window a run builds from a page.
C18_OneWriterPerPartial ==
  \A a \in Writers, b \in Writers :
     a # b => getPartialFilePath(jobs[a].path) # getPartialFilePath(jobs[b].path)


\* ========================================================== ProgressManager
\* a call of updateProgress, completeDownload or failDownload for id
PmCallOnEntry(id) ==
  \/ \E d \in 0..MaxSize, t \in PmTotals : PmUpdate(id, d, t)
  \/ \E success \in BOOLEAN : PmComplete(id, success)
  \/ PmFail(id)

\* C19: updateProgress, completeDownload and failDownload called with an id
\* that has no entry leave the set of entries and every entry as they were and
\* raise no error.
C19_Step ==
  \A id \in PmIds :
     (~progress.bars[id].present /\ PmCallOnEntry(id)) =>
        /\ progress'.bars = progress.bars
        /\ ~progress'.raised

C19_UnknownIdIsNoOp == [][C19_Step]_vars

\* one of the three methods was just called for an id that never had an
\* entry, while the other id has an entry showing progress
C19_Witness ==
  /\ pc = "pm"
  /\ progress.op[1] \in {"updateProgress", "completeDownload", "failDownload"}
  /\ progress.bars[progress.op[2]] = NoBar
  /\ ~progress.raised
  /\ \E o \in PmIds : progress.bars[o].present /\ progress.bars[o].value > 0

\* C20: completeDownload(id, true) on an existing entry leaves its bar at 100%
\* (value = total of the bar) and removes the entry, for every entry, one whose
\* total was never known included; completeDownload(id, false) and
\* failDownload(id) remove the entry and leave the bar as it was.
C20_Step ==
  \A id \in PmIds :
     progress.bars[id].present =>
        /\ PmComplete(id, TRUE) =>
              /\ ~progress'.bars[id].present
              /\ progress'.bars[id].value = progress'.bars[id].barTotal
        /\ (PmComplete(id, FALSE) \/ PmFail(id)) =>
              /\ ~progress'.bars[id].present
              /\ progress'.bars[id].value = progress.bars[id].value
              /\ progress'.bars[id].barTotal = progress.bars[id].barTotal

C20_SuccessSnapsToFull == [][C20_Step]_vars


\* C21: an updateProgress with a non-zero total on an entry whose total is
\* unknown (0) makes that value the entry's total and the total of its bar,
\* and the bar shows the byte count of that call; an updateProgress on an
\* entry whose total is non-zero leaves the total as it is.
UpdateRan(id, d, t) ==
  /\ progress'.op = <<"updateProgress", id>>
  /\ progress' = After(progress, updateProgress(progress.bars, id, d, t),
                       "updateProgress", id)

C21_Step ==
  \A id \in PmIds, d \in 0..MaxSize, t \in PmTotals :
     (progress.bars[id].present /\ UpdateRan(id, d, t)) =>
        LET old == progress.bars[id]
            new == progress'.bars[id]
        IN /\ new.present
           /\ new.value = d
           /\ (old.totalBytes = 0 /\ t # 0) =>
                 new.totalBytes = t /\ new.barTotal = t
           /\ old.totalBytes # 0 =>
                 new.totalBytes = old.totalBytes /\ new.barTotal = old.barTotal

C21_TotalLearnedOnce == [][C21_Step]_vars

\* an entry whose bar was retargeted from the placeholder total by the
\* update that just ran, showing the bytes of that update below its total
C21_Witness ==
  /\ pc = "pm"
  /\ \E id \in PmIds :
       /\ progress.op = <<"updateProgress", id>>
       /\ progress.bars[id].present
       /\ progress.bars[id].totalBytes # 0
       /\ progress.bars[id].barTotal = progress.bars[id].totalBytes
       /\ progress.bars[id].value > 0
       /\ progress.bars[id].value < progress.bars[id].totalBytes


\* C22: a job that downloadMessageMedia runs with a ProgressManager has an
\* entry under its message id from the start of its first attempt until it
\* returns; the entry is neither removed nor registered again when a backoff
\* ends and the next attempt starts; it is gone once the job has returned true
\* or false, and when a window has finished no job of it has an entry.
C22_Step ==
  /\ \A m \in Ids :
       jobs'[m].pm = "pm" =>
          /\ jobs'[m].st \in InFlight => progress'.bars[m].present
          /\ jobs'[m].st \in {"true", "false"} => ~progress'.bars[m].present
          /\ (jobs[m].st = "none" /\ jobs'[m].st \in InFlight) =>
                progress'.bars[m].totalBytes = TotalBytes(m)
          /\ (jobs[m].st = "wait" /\ jobs'[m].st = "wait") =>
                progress'.bars[m] = progress.bars[m]
          /\ (jobs[m].st = "wait" /\ jobs'[m].st = "stream") =>
                /\ jobs'[m].tries = jobs[m].tries + 1
                /\ progress' = progress
  /\ (pc = "window" /\ pc' \in {"fetch", "returned"}) =>
        \A m \in WindowJobs : ~progress'.bars[m].present

C22_EntryFromStartToOutcome == [][C22_Step]_vars

\* a second attempt is running and the entry registered by the first one is
\* still there, showing the bytes the second attempt has written
C22_Witness ==
  \E m \in Ids :
     /\ jobs[m].pm = "pm"
     /\ jobs[m].tries = 2
     /\ jobs[m].st = "stream"
     /\ jobs[m].got > 0
     /\ progress.bars[m].present
     /\ progress.bars[m].value = jobs[m].got
     /\ progress.op # <<"startDownload", m>>


\* ============================================================ tracking files
\* the value a tracking file holds under a key, Undefined if it holds none
StoredUnder(f, k) ==
  IF f.kind = "object" /\ \E v \in StoredValues : <<k, v>> \in f.members
  THEN CHOOSE v \in StoredValues : <<k, v>> \in f.members
  ELSE Undefined

\* C23: getMessageOffset returns 0 and raises nothing when the tracking file
\* is missing, unreadable, not valid JSON or holds no messageOffsetId;
\* otherwise it returns the stored messageOffsetId.
C23_ReadDegradesToZero ==
  (pc = "store" /\ store.op[1] = "getMessageOffset") =>
     LET stored == StoredUnder(store.files[store.op[2]], "messageOffsetId")
     IN /\ ~store.ret.raised
        /\ store.ret.value = IF stored = Undefined THEN 0 ELSE stored


\* C24: updateLastSelection(scope, patch) sets every key of the patch to the
\* patch value, leaves every other key the scope's file holds as it was and
\* the files of all other scopes untouched, and a second application of the
\* same patch changes nothing; when the file cannot be written the call
\* changes nothing and raises nothing.
UpdateRanOn(sc, object, writeOk) ==
  /\ store'.op = <<"updateLastSelection", sc>>
  /\ store'.files = [store.files EXCEPT ![sc] = updateLastSelection(@, object, writeOk)]

C24_Step ==
  \A sc \in {store'.op[2]}, object \in Objects :
     LET f == store.files[sc]
         g == store'.files[sc]
     IN /\ (UpdateRanOn(sc, object, TRUE) /\ f.kind # "unreadable") =>
             /\ \A k \in StoreKeys :
                  StoredUnder(g, k) = IF object[k] # Undefined THEN object[k]
                                      ELSE StoredUnder(f, k)
             /\ \A o \in Scopes \ {sc} : store'.files[o] = store.files[o]
             /\ updateLastSelection(g, object, TRUE) = g
             /\ ~store'.ret.raised
        /\ (UpdateRanOn(sc, object, FALSE) \/
            (UpdateRanOn(sc, object, TRUE) /\ f.kind = "unreadable")) =>
             /\ store'.files = store.files
             /\ ~store'.ret.raised

C24_UpdateMerges == [][C24_Step]_vars

\* a file that held both keys now holds a new messageOffsetId and the other
\* key as before, next to the file of another scope that holds both keys
C24_Witness ==
  /\ pc = "store"
  /\ store.op = <<"updateLastSelection", "chanA">>
  /\ StoredUnder(store.files["chanA"], "messageOffsetId") = 1
  /\ StoredUnder(store.files["chanA"], "other") = 0
  /\ StoredUnder(store.files["chanB"], "messageOffsetId") = 0
  /\ StoredUnder(store.files["chanB"], "other") = 1


\* ================================================== what becomes a transfer
\* C25: a message whose media is neither a document nor a photo never becomes
\* a job of a run and causes no remote fetch: canDownload is false for it,
\* a call of downloadMessageMedia for it returns false and leaves no partial
\* file and no progress entry, and extractFileInfo gives null for it.
C25_OnlyDocumentsAndPhotos ==
  (pc = "job" /\ msgs[1].type \notin {"doc", "photo", "thumb"}) =>
     /\ ~canDownload(disk, 1)
     /\ ~HasFileInfo(1)
     /\ jobs[1].st \in {"none", "false"}
     /\ jobs[1].nfetch = 0 /\ jobs[1].tries = 0
     /\ \A n \in Names : ~disk[n].exists
     /\ \A m \in Ids : ~progress.bars[m].present /\ progress.bars[m].barTotal = 0

\* downloadMessageMedia was called for a web page preview and returned false
C25_Witness ==
  /\ pc = "job"
  /\ msgs[1].type = "web"
  /\ jobs[1].st = "false"
  /\ runs > 0

\* a call of downloadMessageMedia for message 1 comes to return true
C30_Step ==
  /\ pc = "job"
  /\ jobs[1].st # "true"
  /\ jobs'[1].st = "true"

\* C30: downloadMessageMedia returns true, and marks the download complete in
\* the ProgressManager, only if its last call of resumableDownload took the
\* remote stream to its end and renamed the partial file to the destination:
\* at the return the destination file holds the whole content and the
\* partial file is gone.
C30_TrueOnlyWithDestinationFile ==
  [][C30_Step =>
       /\ jobs'[1].tries > 0
       /\ disk'[FinalName(jobs'[1].path)] = [exists |-> TRUE, data |-> Content(1)]
       /\ ~disk'[getPartialFilePath(jobs'[1].path)].exists]_vars

\* ========================================================= extractFileInfo
\* the variants of the photo that report a byte size
Sized(media) ==
  {i \in 1..Len(media.sizes) :
     media.sizes[i].className \in {"PhotoSize", "PhotoSizeProgressive"}}

\* C26: for a photo extractFileInfo selects the variant with the largest
\* reported byte size, the first-seen one when several report it, and gives
\* that size as fileSize; for a document it gives the document's size.
C26_LargestVariantFirstOnTies ==
  (pc = "info" /\ probe.called) =>
     LET media == probe.media
         out == probe.out
     IN  /\ media.kind = "document" =>
              /\ out.found /\ ~out.isPhoto
              /\ media.size # 0 => (out.known /\ out.fileSize = media.size)
         /\ (media.kind = "photo" /\ Sized(media) # {}) =>
              /\ out.found /\ out.isPhoto /\ out.known
              /\ out.thumb \in Sized(media)
              /\ out.fileSize = ReportedSize(media.sizes[out.thumb])
              /\ \A i \in Sized(media) :
                   /\ ReportedSize(media.sizes[i]) <= out.fileSize
                   /\ ReportedSize(media.sizes[i]) = out.fileSize => out.thumb <= i

\* a photo whose second and third variants tie for the largest size, behind a
\* smaller first one: the second was taken
C26_Witness ==
  /\ pc = "info" /\ probe.called
  /\ probe.media.kind = "photo"
  /\ Len(probe.media.sizes) = 3
  /\ Sized(probe.media) = {1, 2, 3}
  /\ ReportedSize(probe.media.sizes[1]) = 1
  /\ ReportedSize(probe.media.sizes[2]) = 2
  /\ ReportedSize(probe.media.sizes[3]) = 2
  /\ probe.media.sizes[3].className = "PhotoSizeProgressive"
  /\ probe.out.thumb = 2
  /\ probe.out.fileSize = 2

\* ============================================================== next page
\* the last window of a page has succeeded: the cursor is written and the
\* next page is asked for
PageDone ==
  /\ pc = "window"
  /\ pc' = "fetch"

C28_JobsReceiveManagerAndZero ==
  \A m \in Ids :
     (pc \in {"window", "fetch", "returned"} /\ jobs[m].st # "none") =>
        /\ jobs[m].pm = "pm"
        /\ jobs[m].tries > 0 => jobs[m].rc = jobs[m].tries - 1

\* ======================================================= download from links
\* C29: in a download-from-links run no message is placed in the download
\* list more than once: two entries of linkedMessages never are the same
\* message of the same channel.
C29_EachMessageListedOnce ==
  pc = "links" =>
    \A a \in 1..Len(linkRun.linked), b \in 1..Len(linkRun.linked) :
       a # b => linkRun.linked[a] # linkRun.linked[b]

\* ================================================== windows one after another
\* message m is handed to downloadMessageMedia by this step
JobStarts(m) ==
  /\ jobs[m].st = "none"
  /\ jobs'[m].st # "none"

\* C31: the downloadable messages of a page are processed in consecutive
\* windows of 3 in list order: a job of a later window starts only in the
\* step that found every job of the window before it returned (with true,
\* all retry waits over), that step writes the cursor of that window, and
\* the jobs it starts are the next 3 of the list.
C31_WindowsInSequence ==
  [][\A m \in Ids :
       (pc = "window" /\ JobStarts(m)) =>
          /\ \A o \in Range(WindowAt(dl, wi)) : jobs[o].st = "true"
          /\ \A k \in 1..Len(dl) : k <= wi + MAX_PARALLEL_DOWNLOAD => jobs[dl[k]].st \notin InFlight
          /\ cursor' = dl[wi + MAX_PARALLEL_DOWNLOAD]
          /\ wi' = wi + MAX_PARALLEL_DOWNLOAD
          /\ dl' = dl
          /\ \E k \in (wi' + 1)..(wi' + 3) : k <= Len(dl) /\ dl[k] = m
          /\ \A k \in 1..Len(dl) :
               (jobs'[dl[k]].st # "none") <=> (k <= wi' + 3)]_vars

\* the second window is running after a first window of three in which a
\* job went through a retry wait; the cursor stands at the end of the first
C31_Witness ==
  /\ pc = "window"
  /\ wi = MAX_PARALLEL_DOWNLOAD
  /\ Len(dl) > MAX_PARALLEL_DOWNLOAD
  /\ cursor = dl[MAX_PARALLEL_DOWNLOAD]
  /\ jobs[dl[4]].st \in InFlight
  /\ \E k \in 1..3 : jobs[dl[k]].tries >= 2
  /\ \A k \in 1..3 : jobs[dl[k]].st = "true"

\* ====================================================== chunks of an attempt
Attempting == {"stream", "write", "closing"}

\* the next chunk is taken from the remote stream
ChunkTaken ==
  /\ pc = "unit"
  /\ jobs[1].st = "stream"
  /\ jobs'[1].st = "write"

\* the write of the chunk in hand is acknowledged
ChunkWritten ==
  /\ pc = "unit"
  /\ jobs[1].st = "write"
  /\ jobs'[1].st \in {"stream", "rdThrew"}
  /\ jobs'[1].got > jobs[1].got

\* C32: within one attempt of resumableDownload the chunks go to the partial
\* file one at a time in increasing offset order: a chunk is taken from the
\* remote stream only when no write is outstanding, it is the part of the
\* object that starts at the partial file's length, and its write appends it;
\* so the partial file is at every moment a prefix of the object, of the
\* length found at the start plus the bytes acknowledged.
C32_ChunksInOffsetOrder ==
  [][/\ ChunkTaken =>
          /\ jobs[1].chunk = <<>>
          /\ jobs'[1].chunk # <<>>
          /\ disk' = disk
          /\ jobs[1].off0 + jobs[1].got = Len(PartialX.data)
          /\ PartialX.data \o jobs'[1].chunk =
               Prefix(Len(PartialX.data) + Len(jobs'[1].chunk))
     /\ ChunkWritten =>
          /\ disk'[getPartialFilePath(X)].data = PartialX.data \o jobs[1].chunk
          /\ jobs'[1].got = jobs[1].got + Len(jobs[1].chunk)
     /\ (pc = "unit" /\ jobs'[1].st \in Attempting) =>
          /\ disk'[getPartialFilePath(X)].exists
          /\ Len(disk'[getPartialFilePath(X)].data) = jobs'[1].downloaded
          /\ jobs'[1].downloaded = jobs'[1].off0 + jobs'[1].got
     /\ (pc = "unit" /\ disk'[getPartialFilePath(X)].exists) =>
          disk'[getPartialFilePath(X)].data =
             Prefix(Len(disk'[getPartialFilePath(X)].data))]_vars

\* an attempt that resumed from a partial file has had its second chunk
\* acknowledged and holds more of the object than one chunk
C32_Witness ==
  /\ pc = "unit"
  /\ jobs[1].st = "stream"
  /\ jobs[1].off0 > 0
  /\ jobs[1].nfetch >= 2
  /\ jobs[1].got > PartSize
  /\ Len(PartialX.data) = jobs[1].off0 + jobs[1].got

\* ====================================================== the progress callback
\* resumableDownload, called by downloadMessageMedia, has the write of a
\* chunk acknowledged, adds its length to downloaded and calls the progress
\* callback
CallbackStep ==
  /\ pc = "job"
  /\ jobs[1].st = "write"
  /\ jobs'[1].got > jobs[1].got

\* the partial file's length when the attempt began to stream (after the
\* corruption guard)
LengthAtStart(job) ==
  IF job.stale \/ ~job.seen.exists THEN 0 ELSE Len(job.seen.data)

\* C33: resumableDownload calls the progress callback once for every chunk
\* received, after the chunk's write was acknowledged and at no other point
\* of the attempt, with downloaded = the partial file's length at the start
\* of the attempt plus the lengths of the chunks received so far; the values
\* grow strictly within an attempt and are the partial file's length at the
\* time of the call.  (The callback of downloadMessageMedia hands the value
\* to updateProgress, where the bar shows it.)
C33_CallbackPerChunk ==
  [][/\ CallbackStep =>
          /\ jobs'[1].downloaded = LengthAtStart(jobs[1]) + jobs'[1].got
          /\ jobs'[1].got = jobs[1].got + Len(jobs[1].chunk)
          /\ jobs'[1].downloaded > jobs[1].downloaded
          /\ jobs'[1].downloaded = Len(disk'[getPartialFilePath(jobs[1].path)].data)
          /\ jobs'[1].nfetch = jobs[1].nfetch
          /\ PmCall(jobs[1].pm) = "ok" =>
               /\ progress'.op = <<"updateProgress", 1>>
               /\ progress'.bars[1].value = jobs'[1].downloaded
     /\ (pc = "job" /\ jobs[1].st \in Attempting /\ ~CallbackStep) =>
          /\ progress'.bars[1].value = progress.bars[1].value
               \/ jobs'[1].st \in {"true", "none"}
          /\ jobs'[1].downloaded = jobs[1].downloaded \/ jobs'[1].st = "none"]_vars

\* the second callback of an attempt that resumed from a partial file: the
\* bar shows the partial file's length, which is the whole object
C33_Witness ==
  /\ pc = "job"
  /\ wiring = "declared"
  /\ jobs[1].pm = "pm"
  /\ jobs[1].st = "stream"
  /\ LengthAtStart(jobs[1]) > 0
  /\ jobs[1].nfetch = 2
  /\ progress.op = <<"updateProgress", 1>>
  /\ progress.bars[1].value = LengthAtStart(jobs[1]) + jobs[1].got
  /\ progress.bars[1].value = Len(disk[getPartialFilePath(jobs[1].path)].data)

\* ============================================== the partial file and the size
\* C34: when the size T of the object is declared, the partial file of an
\* attempt has, from the corruption guard to the end of the attempt, a length
\* of at most T; a chunk is requested only while the length is below T, and
\* the chunk delivered does not take it beyond T.
C34_PartialWithinDeclaredSize ==
  [][/\ (pc = "unit" /\ msgs[1].known /\ jobs'[1].st \in Attempting) =>
          /\ disk'[getPartialFilePath(X)].exists
          /\ Len(disk'[getPartialFilePath(X)].data) <= T
          /\ Len(disk'[getPartialFilePath(X)].data) + Len(jobs'[1].chunk) <= T
     /\ (ChunkTaken /\ msgs[1].known) =>
          /\ Len(PartialX.data) < T
          /\ jobs[1].off0 + jobs[1].got < T]_vars

\* an attempt on a declared size that resumed from a partial file has
\* received the last chunk: the partial file has reached T and waits for
\* its rename
C34_Witness ==
  /\ pc = "unit"
  /\ msgs[1].known
  /\ jobs[1].st = "closing"
  /\ jobs[1].off0 > 0
  /\ jobs[1].got > 0
  /\ Len(PartialX.data) = T

\* ======================================================== the final outcome
\* the call of downloadMessageMedia for m has ended
Ended(m) == jobs[m].st \notin InFlight \cup {"none"}

\* job m after its call has returned: nothing of it moves any more in the run
Final(m) ==
  jobs[m].st \in {"true", "false"} =>
     \/ pc' = "off"
     \/ /\ jobs'[m] = jobs[m]
        /\ progress'.bars[m].value = progress.bars[m].value
        /\ progress'.bars[m].totalBytes = progress.bars[m].totalBytes
        /\ ~progress'.bars[m].present
        /\ disk'[getPartialFilePath(jobs[m].path)] = disk[getPartialFilePath(jobs[m].path)]

\* C35: every job ends in exactly one final outcome, Completed (true) or
\* Failed (false), that is not changed afterwards: after the call returned
\* there is no further attempt, wait, chunk write or progress update for the
\* job in the run; between two attempts the job is active (its call has not
\* returned and its progress entry is there).
C35_OneFinalOutcome ==
  [][\A m \in Ids :
       /\ Ended(m) => jobs[m].st \in {"true", "false"}
       /\ Final(m)
       /\ (jobs[m].st = "wait" /\ PmCall(jobs[m].pm) = "ok") => progress.bars[m].present]_vars

\* ============================================================== termination
\* a page is awaited, a window is awaited or a job is active
Running ==
  \/ pc \in {"fetch", "window"}
  \/ \E m \in Ids : jobs[m].st \in InFlight

\* downloadChannel has returned and every job that was started has ended
\* Completed or Failed
AllDone ==
  /\ pc = "returned"
  /\ \A m \in Ids : jobs[m].st \in {"none", "true", "false"}

\* C36: when every remote call returns or fails and every backoff wait ends,
\* every job comes to Completed or Failed, every window finishes and the run
\* returns; each next page is asked for with a strictly smaller offset id.
C36_RunTerminates ==
  /\ Running ~> AllDone
  /\ [][(pc' = "fetch" /\ offsetArg' # offsetArg) =>
          (offsetArg = 0 \/ offsetArg' < offsetArg)]_vars

\* ===================================================== the cursor over runs
\* the await of a window whose jobs all succeeded returns and the loop goes on
WindowPassed ==
  /\ pc = "window"
  /\ allSucceeded(WindowAt(dl, wi))
  /\ pc' \in {"window", "fetch"}
  /\ pc' = "fetch" \/ wi' # wi

\* C37: within a run and over consecutive runs of a scope the values written
\* to the persisted cursor are strictly decreasing message ids, and every
\* value written is the smallest id of a window whose jobs all succeeded.
C37_CursorStrictlyDecreasing ==
  [][/\ WindowPassed =>
          /\ cursor' \in Range(WindowAt(dl, wi))
          /\ \A o \in Range(WindowAt(dl, wi)) : cursor' <= o /\ jobs[o].st = "true"
          /\ cursor = 0 \/ cursor' < cursor
     /\ cursor' # cursor => WindowPassed]_vars

\* the second run started below the cursor the first run had written and
\* has written a lower id
C37_Witness ==
  /\ runs = 2
  /\ wiring = "declared"
  /\ winCursor # 0
  /\ cursor # 0
  /\ cursor < winCursor
  /\ pc = "fetch"
  /\ offsetArg <= cursor
  /\ \E m \in hadFile : m > winCursor

\* ====================================================== the totals shown
\* C38: for every active progress entry whose total is known the downloaded
\* count shown is at most the entry's total at every update, and the total
\* that downloadMessageMedia registers with startDownload is the total size
\* that resumableDownload uses and reports, for photos and for documents.
C38_ShownWithinRegisteredTotal ==
  pc = "totals" =>
     /\ (progress.bars[1].present /\ progress.bars[1].totalBytes # 0) =>
           progress.bars[1].value <= progress.bars[1].totalBytes
     /\ (progress.op = <<"startDownload", 1>> /\ probe.out.found) =>
           progress.bars[1].totalBytes = totalSize(probe.out)

====
